---- MODULE Spec2Model ----
(***************************************************************************)
(* State-machine model of win-acl-rs: the SecurityDescriptorImpl<P>        *)
(* ownership model (sd.rs), the privilege typestate (elevated.rs), the     *)
(* owning / non-owning Acl (acl.rs) and the error macros (macros.rs).      *)
(* The native Win32 calls are the environment: each call's outcome is an   *)
(* input of the action that issues it.                                     *)
(***************************************************************************)
EXTENDS Integers, Sequences, FiniteSets, TLC

(* ------------------------------ bounds --------------------------------- *)

\* number of native allocations (LocalAlloc'ed blocks) a run may create
MaxAlloc == 2
\* number of privilege-token values of one level alive at a time
MaxTokens == 1
\* number of borrowed views (SidRef, non-owning Acl) alive at a time
MaxViews == 1
\* number of owning Acl values alive at a time
MaxAcls == 1
\* number of entries the model appends to one Acl
MaxAces == 2
\* number of characters of an account name
MaxNameLen == 3
\* number of AclIter values alive at a time
MaxIters == 1

(* ------------------------- program constants --------------------------- *)

ERROR_SUCCESS == 0
ERROR_OUTOFMEMORY == 14
ERROR_INVALID_PARAMETER == 87
ERROR_INVALID_SID == 1337
ERROR_ALLOTTED_SPACE_EXCEEDED == 1344
ERROR_NONE_MAPPED == 1332

\* sizes are counted in DWORDs (4 bytes): the ACL header, an ACE's header and
\* mask, and every SID are whole DWORDs, and InitializeAcl rounds the length
\* it is given down to a whole DWORD
\* size_of::<ACL>(): 8 bytes
SizeOfAcl == 2
\* size_of::<ACCESS_ALLOWED_ACE>(): ACE_HEADER, Mask, SidStart, 12 bytes
SizeOfAccessAllowedAce == 3
\* size_of::<ACE_HEADER>() + size_of::<u32>(): where the SID of an ACE starts
SidOffset == 2
\* Acl::empty: DEFAULT_ACE_CAPACITY entries, DEFAULT_SID_MAX_LEN = 128 bytes
DEFAULT_ACE_CAPACITY == 8
DEFAULT_SID_MAX_LEN == 32
\* the largest AclSize (a u16 count of bytes, 65532) InitializeAcl accepts
MaxAclSize == 16383
\* the number of DWORDs a u32 count of bytes wraps at: 2^32 bytes
U32Wrap == 1073741824
\* the number of values of a u8
U8Wrap == 256

\* error codes a failing native call may leave in the thread's last-error slot
\* (5 is ERROR_ACCESS_DENIED)
NativeErrors == {5}
\* last-error after AdjustTokenPrivileges returned TRUE: ERROR_SUCCESS, or
\* ERROR_NOT_ALL_ASSIGNED when the token does not hold the privilege
NotAllAssigned == {1300}

Allocs == 1..MaxAlloc

(* ------------------------------ pointers ------------------------------- *)

\* a pointer is an allocation plus the part of it that is addressed
NULL == [alloc |-> 0, part |-> "null"]
Ptr(a, p) == [alloc |-> a, part |-> p]
IsNull(p) == p.alloc = 0

(* ---------------------- OBJECT_SECURITY_INFORMATION -------------------- *)

get_elevated == {"SACL"}

\* get_safe, were it to ask for the SACL as well
get_safe_WithSacl == {"OWNER", "GROUP", "DACL", "SACL"}

get_safe == {"OWNER", "GROUP", "DACL"}

get_all == get_elevated \cup get_safe

(* ------------------ descriptor contents and SDDL text ------------------ *)

\* what a native security descriptor holds: each section absent ("none") or
\* with a value; two SACL values stand for two different sets of audit entries
\* dflt: the sections whose SE_*_DEFAULTED control flag is set
NoContent == [o |-> "none", g |-> "none", d |-> "none", s |-> "none", dflt |-> {}]
Content(o, g, d, sacl, dflt) == [o |-> o, g |-> g, d |-> d, s |-> sacl, dflt |-> dflt]
\* the descriptors that SDDL text can state (it has no defaulted flags)
Contents ==
    {Content("SY", "SY", "D1", "S1", {}), Content("SY", "SY", "D1", "S2", {}),
     Content("none", "SY", "none", "none", {})}
\* the security of the named objects the path and handle queries are made on
ObjectContents ==
    {Content("SY", "SY", "D1", "S1", {}), Content("none", "SY", "none", "none", {}),
     Content("SY", "SY", "D1", "S2", {"OWNER", "DACL"})}

\* the sections a query with the given information flags keeps
Restrict(c, flags) ==
    [o |-> IF "OWNER" \in flags THEN c.o ELSE "none",
     g |-> IF "GROUP" \in flags THEN c.g ELSE "none",
     d |-> IF "DACL" \in flags THEN c.d ELSE "none",
     s |-> IF "SACL" \in flags THEN c.s ELSE "none",
     dflt |-> c.dflt \cap flags]

\* GetSecurityDescriptorOwner/Group/Dacl/Sacl: the sub-pointer of a section,
\* null when the section is absent and when it is a NULL DACL
SubPtr(a, c, part) ==
    IF c[part] \in {"none", "NO_ACCESS_CONTROL"} THEN NULL ELSE Ptr(a, part)


\* one section of the SDDL text, "O:", "G:", "D:" or "S:" followed by its value
Section(tag, v) ==
    IF v = "none" THEN <<>> ELSE <<[tag |-> tag, val |-> v]>>

\* ConvertSecurityDescriptorToStringSecurityDescriptorW: the text of the
\* sections the information flags ask for, in the order O, G, D, S
NativeSdToString(c, flags) ==
    LET r == Restrict(c, flags)
    IN  Section("O", r.o) \o Section("G", r.g) \o Section("D", r.d) \o Section("S", r.s)

\* the value the native parser stores for a section's text: a well-known SID
\* written as S-1-5-18 is the SID the constant SY names
Stored(v) == IF v = "S-1-5-18" THEN "SY" ELSE v

SectionValue(t, tag) ==
    IF \E i \in DOMAIN t : t[i].tag = tag
    THEN t[CHOOSE i \in DOMAIN t : t[i].tag = tag].val
    ELSE "none"

\* ConvertStringSecurityDescriptorToSecurityDescriptorW: every section of the
\* text is stored in the descriptor it allocates
NativeStringToSd(t) ==
    [o |-> Stored(SectionValue(t, "O")), g |-> Stored(SectionValue(t, "G")),
     d |-> SectionValue(t, "D"), s |-> SectionValue(t, "S"), dflt |-> {}]

\* the descriptor texts given to from_sd_string
Texts == {NativeSdToString(c, {"OWNER", "GROUP", "DACL", "SACL"}) : c \in Contents}

\* those, and a text that writes the owner as S-1-5-18
AcceptedTexts ==
    Texts \cup {<<[tag |-> "O", val |-> "S-1-5-18"], [tag |-> "G", val |-> "SY"],
                  [tag |-> "D", val |-> "D1"]>>}

(* ------------------------------- state --------------------------------- *)

VARIABLES
    heap,          \* native allocations: state, LocalFree count, kind, contents
    sds,           \* the SecurityDescriptorImpl<P> values that are alive
    acls,          \* the Acl values that are alive
    sidrefs,       \* the SidRef<'a> borrows that are alive
    elevTokens,    \* number of PrivilegeTokenImpl<Elevated> values alive
    holdsPriv,     \* the process token holds SeSecurityPrivilege (environment)
    privEnabled,   \* SeSecurityPrivilege is enabled on the process token
    iters,         \* the AclIter<'a> values that are alive
    last           \* the last public operation: its inputs, native outcomes, result

vars == <<heap, sds, acls, sidrefs, elevTokens, holdsPriv,
          privEnabled, iters, last>>

\* size and aces: the AclSize and the entries of a block that holds an ACL
NoBlock == [state |-> "none", frees |-> 0, kind |-> "none", owned |-> FALSE,
            content |-> NoContent, size |-> 0, aces |-> <<>>]

LastNone == [op |-> "none", priv |-> "-", ret |-> "-", code |-> 0, native |-> 0,
             failAt |-> "none", cleanup |-> FALSE, adjErr |-> 0, closes |-> 0,
             flags |-> {}, token |-> FALSE, alloc |-> 0, ptrs |-> <<>>,
             freedRead |-> FALSE, text |-> <<>>, flag |-> FALSE, owned |-> FALSE,
             hint |-> <<>>, size |-> 0, bytes |-> 0, aces |-> <<>>, index |-> 0,
             count |-> 0, yield |-> <<>>, ace |-> <<>>, sid |-> <<>>, str |-> <<>>,
             parsed |-> <<>>, printed |-> <<>>]

Init ==
    /\ heap = [a \in Allocs |-> NoBlock]
    /\ sds = {}
    /\ acls = {}
    /\ sidrefs = {}
    /\ elevTokens = 0
    /\ holdsPriv \in BOOLEAN
    /\ privEnabled = FALSE
    /\ iters = {}
    /\ last = LastNone

(* ------------------------------ the heap ------------------------------- *)

FreeSlots == {a \in Allocs : heap[a].state = "none"}
\* the block a successful native allocation returns
NewBlock == CHOOSE a \in FreeSlots : \A b \in FreeSlots : a <= b

Allocate(h, a, kind, c, owned) ==
    [h EXCEPT ![a] = [state |-> "live", frees |-> 0, kind |-> kind,
                      owned |-> owned, content |-> c, size |-> 0, aces |-> <<>>]]

\* LocalFree applied to block a: what a released block holds is not the
\* program's any more
LocalFree(h, a) ==
    [h EXCEPT ![a].state = "freed", ![a].frees = @ + 1, ![a].content = NoContent,
              ![a].size = 0, ![a].aces = <<>>]

\* macros.rs assert_free!: LocalFree unless the pointer is null
assert_free(h, p) ==
    IF IsNull(p) THEN h ELSE LocalFree(h, p.alloc)

\* the last-error value after a cleanup call (CloseHandle, LocalFree) that ran
\* after a failed call left e: the API does not promise to keep it
CleanupLastError(e) == {e, ERROR_SUCCESS}

\* macros.rs winapi_bool_call!: the code of the Err it returns when the call
\* failed leaving e; the cleanup block runs before GetLastError is read
winapi_bool_call(e, hasCleanup, afterCleanup) ==
    IF hasCleanup THEN afterCleanup ELSE e

\* macros.rs winapi_call!: the code of the Err is the status the call returned
winapi_call(status) == status

(* ------------------------ privilege typestate -------------------------- *)

\* last-error after AdjustTokenPrivileges returned TRUE
AdjustLastError == IF holdsPriv THEN {ERROR_SUCCESS} ELSE NotAllAssigned

ElevateStages == {"none", "OpenProcessToken", "LookupPrivilegeValueW", "AdjustTokenPrivileges"}

\* enable_se_security_privilege without the check of the last-error that
\* follows a successful AdjustTokenPrivileges
enable_se_security_privilege_NoCheck(failAt, e, adjErr, after) ==
    CASE failAt = "OpenProcessToken" ->
            [ret |-> "Err", code |-> e, native |-> e, cleanup |-> FALSE, closes |-> 0]
      [] failAt \in {"LookupPrivilegeValueW", "AdjustTokenPrivileges"} ->
            [ret |-> "Err", code |-> after, native |-> e, cleanup |-> TRUE, closes |-> 1]
      [] OTHER ->
            [ret |-> "Ok", code |-> adjErr, native |-> adjErr, cleanup |-> FALSE,
             closes |-> 1]

\* elevated.rs enable_se_security_privilege: failAt is the native call that
\* returned FALSE (leaving e), adjErr the last-error after a successful
\* AdjustTokenPrivileges (read before CloseHandle runs), after the last-error
\* once the CloseHandle of a cleanup block has run
enable_se_security_privilege(failAt, e, adjErr, after) ==
    CASE failAt = "OpenProcessToken" ->
            [ret |-> "Err", code |-> winapi_bool_call(e, FALSE, after), native |-> e,
             cleanup |-> FALSE, closes |-> 0]
      [] failAt \in {"LookupPrivilegeValueW", "AdjustTokenPrivileges"} ->
            [ret |-> "Err", code |-> winapi_bool_call(e, TRUE, after), native |-> e,
             cleanup |-> TRUE, closes |-> 1]
      [] OTHER ->
            [ret |-> IF adjErr # ERROR_SUCCESS THEN "Err" ELSE "Ok", code |-> adjErr,
             native |-> adjErr, cleanup |-> FALSE, closes |-> 1]

\* the native outcomes of one enable_se_security_privilege call
ElevateOutcomes ==
    {[failAt |-> "none", e |-> ERROR_SUCCESS, adjErr |-> x, after |-> x] :
        x \in AdjustLastError}
    \cup
    {[failAt |-> f, e |-> e, adjErr |-> ERROR_SUCCESS, after |-> x] :
        f \in ElevateStages \ {"none"}, e \in NativeErrors, x \in NativeErrors \cup {ERROR_SUCCESS}}

\* PrivilegeTokenImpl::<Unprivileged>::new().try_elevate(): an Unprivileged
\* token is a zero-sized value anyone can make, so only the Elevated ones are
\* counted
TryElevate ==
    \E o \in ElevateOutcomes :
        LET r == enable_se_security_privilege(o.failAt, o.e, o.adjErr, o.after) IN
        /\ o.failAt # "none" => o.after \in CleanupLastError(o.e)
        /\ r.ret = "Ok" => elevTokens < MaxTokens
        /\ elevTokens' = IF r.ret = "Ok" THEN elevTokens + 1 ELSE elevTokens
        /\ privEnabled' = (privEnabled \/ (o.failAt = "none" /\ o.adjErr = ERROR_SUCCESS))
        /\ last' = [LastNone EXCEPT !.op = "try_elevate", !.ret = r.ret, !.code = r.code,
                                    !.native = r.native, !.failAt = o.failAt,
                                    !.cleanup = r.cleanup, !.adjErr = o.adjErr,
                                    !.closes = r.closes]
        /\ UNCHANGED <<heap, sds, acls, sidrefs, holdsPriv, iters>>

\* PrivilegeTokenImpl::<Elevated>::drop_privileges(self): the token is consumed;
\* nothing is done to the process token
DropPrivileges ==
    /\ elevTokens > 0
    /\ elevTokens' = elevTokens - 1
    /\ last' = [LastNone EXCEPT !.op = "drop_privileges", !.ret = "Ok"]
    /\ UNCHANGED <<heap, sds, acls, sidrefs, holdsPriv, privEnabled, iters>>

(* ----------------------- SecurityDescriptorImpl<P> --------------------- *)

Levels == {"Unprivileged", "Elevated"}

SdValue(priv, a, c) ==
    [priv |-> priv, sd_ptr |-> Ptr(a, "sd"),
     owner_sid_ptr |-> SubPtr(a, c, "o"), group_sid_ptr |-> SubPtr(a, c, "g"),
     dacl_ptr |-> SubPtr(a, c, "d"), sacl_ptr |-> SubPtr(a, c, "s")]

Pointers(s) == <<s.sd_ptr, s.owner_sid_ptr, s.group_sid_ptr, s.dacl_ptr, s.sacl_ptr>>

\* sd.rs create_sd: one GetNamedSecurityInfoW query with the given flags on an
\* object whose security is c; status is what the call returns
create_sd(priv, ctor, token, flags, c, status) ==
    /\ status # ERROR_SUCCESS \/ FreeSlots # {}
    /\ status = ERROR_SUCCESS => ("SACL" \in flags => privEnabled)
    /\ IF status # ERROR_SUCCESS
       THEN /\ last' = [LastNone EXCEPT !.op = ctor, !.priv = priv, !.ret = "Err",
                                        !.code = winapi_call(status), !.native = status,
                                        !.failAt = "GetNamedSecurityInfoW",
                                        !.flags = flags, !.token = token]
            /\ UNCHANGED <<heap, sds, iters>>
       ELSE LET a == NewBlock
                k == Restrict(c, flags) IN
            /\ heap' = Allocate(heap, a, "sd", k, TRUE)
            /\ sds' = sds \cup {SdValue(priv, a, k)}
            /\ last' = [LastNone EXCEPT !.op = ctor, !.priv = priv, !.ret = "Ok",
                                        !.flags = flags, !.token = token, !.alloc = a]
    /\ UNCHANGED <<acls, sidrefs, elevTokens, holdsPriv, privEnabled, iters>>

Statuses == {ERROR_SUCCESS} \cup NativeErrors

\* SecurityDescriptorImpl::<Unprivileged>::from_path
FromPath ==
    \E c \in ObjectContents, status \in Statuses :
        create_sd("Unprivileged", "from_path", FALSE, get_safe, c, status)

\* SecurityDescriptorImpl::<Unprivileged>::from_handle
FromHandle ==
    \E c \in ObjectContents, status \in Statuses :
        create_sd("Unprivileged", "from_handle", FALSE, get_safe, c, status)

\* SecurityDescriptorImpl::<Elevated>::from_path(&token, path)
ElevatedFromPath ==
    /\ elevTokens > 0
    /\ \E c \in ObjectContents, status \in Statuses :
        create_sd("Elevated", "from_path", TRUE, get_all, c, status)

\* SecurityDescriptorImpl::<Elevated>::from_handle(&token, handle, object_type)
ElevatedFromHandle ==
    /\ elevTokens > 0
    /\ \E c \in ObjectContents, status \in Statuses :
        create_sd("Elevated", "from_handle", TRUE, get_all, c, status)

SdStringStages == {"none", "ConvertStringSecurityDescriptorToSecurityDescriptorW",
                   "GetSecurityDescriptorOwner", "GetSecurityDescriptorGroup",
                   "GetSecurityDescriptorDacl", "GetSecurityDescriptorSacl"}

\* the heap when from_sd_string returns: the conversion allocated block a unless
\* it is the call that failed; a later failing query returns through
\* winapi_bool_call! without a cleanup block
from_sd_string_heap(h, a, c, failAt) ==
    CASE failAt = "ConvertStringSecurityDescriptorToSecurityDescriptorW" -> h
      [] failAt = "none" -> Allocate(h, a, "sd", c, TRUE)
      [] OTHER -> Allocate(h, a, "sd", c, FALSE)

\* SecurityDescriptorImpl::<P>::from_sd_string, for either P; FromStr::from_str
\* is the same call. failAt is the native call that returned FALSE, leaving e
FromSdString ==
    \E priv \in Levels, t \in Texts, failAt \in SdStringStages, e \in NativeErrors :
        LET a == NewBlock
            c == NativeStringToSd(t) IN
        /\ failAt = "ConvertStringSecurityDescriptorToSecurityDescriptorW" \/ FreeSlots # {}
        /\ heap' = from_sd_string_heap(heap, a, c, failAt)
        /\ sds' = IF failAt = "none" THEN sds \cup {SdValue(priv, a, c)} ELSE sds
        /\ last' = [LastNone EXCEPT
                      !.op = "from_sd_string", !.priv = priv,
                      !.ret = IF failAt = "none" THEN "Ok" ELSE "Err",
                      !.code = IF failAt = "none" THEN 0 ELSE winapi_bool_call(e, FALSE, e),
                      !.native = IF failAt = "none" THEN 0 ELSE e,
                      !.failAt = failAt,
                      !.alloc = IF failAt = "ConvertStringSecurityDescriptorToSecurityDescriptorW"
                                THEN 0 ELSE a]
        /\ UNCHANGED <<acls, sidrefs, elevTokens, holdsPriv, privEnabled, iters>>

\* the borrowed views that are alive
Views == sidrefs \cup {v \in acls : ~v.owned}

\* the borrow checker: a value that a live SidRef<'_> borrows cannot be moved
\* or dropped
Borrowed(s) == \E r \in sidrefs : r.of = s.sd_ptr.alloc

\* Drop for SecurityDescriptorImpl<P>
drop_sd(h, s) == assert_free(h, s.sd_ptr)

\* the value upgrade returns: the five raw pointers are copied out of self
upgrade_value(s) ==
    [priv |-> "Elevated", sd_ptr |-> s.sd_ptr, owner_sid_ptr |-> s.owner_sid_ptr,
     group_sid_ptr |-> s.group_sid_ptr, dacl_ptr |-> s.dacl_ptr, sacl_ptr |-> s.sacl_ptr]

\* the heap when upgrade returns: self is still owned by upgrade at the end of
\* its body (nothing moved out of it, nothing forgot it), so its Drop runs
upgrade_heap(h, s) == drop_sd(h, s)

\* SecurityDescriptorImpl::<Unprivileged>::upgrade(self, &token)
Upgrade ==
    \E s \in sds :
        /\ s.priv = "Unprivileged"
        /\ elevTokens > 0
        /\ ~Borrowed(s)
        /\ heap' = upgrade_heap(heap, s)
        /\ sds' = (sds \ {s}) \cup {upgrade_value(s)}
        /\ last' = [LastNone EXCEPT !.op = "upgrade", !.priv = "Elevated", !.ret = "Ok",
                                    !.token = TRUE, !.alloc = s.sd_ptr.alloc,
                                    !.ptrs = Pointers(s)]
        /\ UNCHANGED <<acls, sidrefs, elevTokens, holdsPriv, privEnabled, iters>>

\* a SecurityDescriptorImpl<P> value goes out of scope
DropSd ==
    \E s \in sds :
        /\ ~Borrowed(s)
        /\ heap' = drop_sd(heap, s)
        /\ sds' = sds \ {s}
        /\ last' = [LastNone EXCEPT !.op = "drop_sd", !.priv = s.priv, !.ret = "Ok",
                                    !.alloc = s.sd_ptr.alloc]
        /\ UNCHANGED <<acls, sidrefs, elevTokens, holdsPriv, privEnabled, iters>>

(* ------------------------------ accessors ------------------------------ *)

Live(a) == heap[a].state = "live"

\* the accessors of impl<P> SecurityDescriptorImpl<P> that return a flag; each
\* reads the descriptor through sd_ptr by one native query
FlagAccessors == {"is_valid", "owner_defaulted", "group_defaulted", "dacl_defaulted",
                  "dacl_present", "sacl_defaulted", "sacl_present"}

\* flag accessors whose group_defaulted makes the owner's query
NativeFlag_GroupReadsOwner(c, op) ==
    CASE op = "is_valid" -> TRUE
      [] op = "owner_defaulted" -> "OWNER" \in c.dflt
      [] op = "group_defaulted" -> "OWNER" \in c.dflt
      [] op = "dacl_defaulted" -> "DACL" \in c.dflt
      [] op = "sacl_defaulted" -> "SACL" \in c.dflt
      [] op = "dacl_present" -> c.d # "none"
      [] op = "sacl_present" -> c.s # "none"

\* what the native query behind a flag accessor reports for a descriptor
\* holding c
NativeFlag(c, op) ==
    CASE op = "is_valid" -> TRUE
      [] op = "owner_defaulted" -> "OWNER" \in c.dflt
      [] op = "group_defaulted" -> "GROUP" \in c.dflt
      [] op = "dacl_defaulted" -> "DACL" \in c.dflt
      [] op = "sacl_defaulted" -> "SACL" \in c.dflt
      [] op = "dacl_present" -> c.d # "none"
      [] op = "sacl_present" -> c.s # "none"

\* an as_sd_string that asks for the sections of get_safe
as_sd_string_Safe(c) == NativeSdToString(c, get_safe)

\* as_sd_string: the text ConvertSecurityDescriptorToStringSecurityDescriptorW
\* returns for the flags the method passes
as_sd_string(c) == NativeSdToString(c, get_all)

\* is_valid, *_defaulted, *_present on a descriptor of either level; is_valid
\* returns a bool, the others the Err of winapi_bool_call! when the query
\* fails; a read of a released block may report anything
SdFlag ==
    \E s \in sds, op \in FlagAccessors, status \in Statuses, junk \in BOOLEAN :
        LET a == s.sd_ptr.alloc
            ok == status = ERROR_SUCCESS IN
        /\ op = "is_valid" => ok
        /\ Live(a) => junk = NativeFlag(heap[a].content, op)
        /\ ~ok => junk = FALSE
        /\ last' = [LastNone EXCEPT !.op = op, !.priv = s.priv,
                                    !.ret = IF ok THEN "Ok" ELSE "Err",
                                    !.code = winapi_bool_call(status, FALSE, status),
                                    !.native = status,
                                    !.failAt = IF ok THEN "none" ELSE op,
                                    !.alloc = a, !.freedRead = ~Live(a),
                                    !.flag = junk]
        /\ UNCHANGED <<heap, sds, acls, sidrefs, elevTokens, holdsPriv,
                       privEnabled, iters>>

\* as_sd_string on a descriptor of either level; the text buffer the native
\* call allocates is released before the method returns
AsSdString ==
    \E s \in sds, status \in Statuses :
      \E junk \in Texts \cup {as_sd_string(heap[s.sd_ptr.alloc].content)} :
        LET a == s.sd_ptr.alloc IN
        /\ (Live(a) /\ status = ERROR_SUCCESS) => junk = as_sd_string(heap[a].content)
        /\ status # ERROR_SUCCESS => junk = as_sd_string(heap[a].content)
        /\ last' = [LastNone EXCEPT
                      !.op = "as_sd_string", !.priv = s.priv,
                      !.ret = IF status = ERROR_SUCCESS THEN "Ok" ELSE "Err",
                      !.code = winapi_bool_call(status, FALSE, status),
                      !.native = status,
                      !.failAt = IF status = ERROR_SUCCESS THEN "none"
                                 ELSE "ConvertSecurityDescriptorToStringSecurityDescriptorW",
                      !.alloc = a, !.freedRead = ~Live(a),
                      !.text = IF status = ERROR_SUCCESS THEN junk ELSE <<>>]
        /\ UNCHANGED <<heap, sds, acls, sidrefs, elevTokens, holdsPriv,
                       privEnabled, iters>>

\* src/tests.rs test_sd_strings for any text: from_str, then is_valid and
\* as_sd_string on the descriptor it returned, which is dropped at the end
SdRoundTrip ==
    \E priv \in Levels, t \in AcceptedTexts, failAt \in SdStringStages,
       e \in NativeErrors, status \in Statuses :
        LET a == NewBlock
            c == NativeStringToSd(t)
            h == from_sd_string_heap(heap, a, c, failAt)
            ok == failAt = "none" IN
        /\ failAt = "ConvertStringSecurityDescriptorToSecurityDescriptorW" \/ FreeSlots # {}
        /\ ~ok => status = ERROR_SUCCESS
        /\ heap' = IF ok THEN drop_sd(h, SdValue(priv, a, c)) ELSE h
        /\ last' = [LastNone EXCEPT
                      !.op = "sd_round_trip", !.priv = priv,
                      !.ret = IF ok THEN "Ok" ELSE "Err",
                      !.code = IF ok THEN 0 ELSE winapi_bool_call(e, FALSE, e),
                      !.native = IF ok THEN 0 ELSE e, !.failAt = failAt,
                      !.alloc = IF failAt = "ConvertStringSecurityDescriptorToSecurityDescriptorW"
                                THEN 0 ELSE a,
                      !.str = t,
                      !.parsed = IF ok THEN <<NativeFlag(c, "is_valid")>> ELSE <<>>,
                      !.printed =
                          IF ~ok THEN <<>>
                          ELSE IF status # ERROR_SUCCESS
                          THEN <<[ret |-> "Err", text |-> <<>>]>>
                          ELSE <<[ret |-> "Ok", text |-> as_sd_string(c)]>>]
        /\ UNCHANGED <<sds, acls, sidrefs, elevTokens, holdsPriv, privEnabled, iters>>

(* --------------------------- borrowed views ---------------------------- *)

\* owner_sid(&self) -> Option<SidRef<'_>>: the SidRef borrows the descriptor
OwnerSid ==
    \E s \in sds :
        /\ IsNull(s.owner_sid_ptr) \/ Cardinality(Views) < MaxViews
        /\ sidrefs' = IF IsNull(s.owner_sid_ptr) THEN sidrefs
                      ELSE sidrefs \cup {[ptr |-> s.owner_sid_ptr, of |-> s.sd_ptr.alloc]}
        /\ last' = [LastNone EXCEPT !.op = "owner_sid", !.priv = s.priv,
                                    !.ret = IF IsNull(s.owner_sid_ptr) THEN "None" ELSE "Some",
                                    !.alloc = s.sd_ptr.alloc]
        /\ UNCHANGED <<heap, sds, acls, elevTokens, holdsPriv, privEnabled, iters>>

\* group_sid(&self) -> Option<SidRef<'_>>
GroupSid ==
    \E s \in sds :
        /\ IsNull(s.group_sid_ptr) \/ Cardinality(Views) < MaxViews
        /\ sidrefs' = IF IsNull(s.group_sid_ptr) THEN sidrefs
                      ELSE sidrefs \cup {[ptr |-> s.group_sid_ptr, of |-> s.sd_ptr.alloc]}
        /\ last' = [LastNone EXCEPT !.op = "group_sid", !.priv = s.priv,
                                    !.ret = IF IsNull(s.group_sid_ptr) THEN "None" ELSE "Some",
                                    !.alloc = s.sd_ptr.alloc]
        /\ UNCHANGED <<heap, sds, acls, elevTokens, holdsPriv, privEnabled, iters>>

\* a method of SidRef that has the native layer read the SID (is_valid,
\* to_string, lookup_name)
SidRefRead ==
    \E r \in sidrefs :
        /\ last' = [LastNone EXCEPT !.op = "sidref_read", !.ret = "Ok",
                                    !.alloc = r.ptr.alloc,
                                    !.freedRead = ~Live(r.ptr.alloc)]
        /\ UNCHANGED <<heap, sds, acls, sidrefs, elevTokens, holdsPriv,
                       privEnabled, iters>>

\* the lifetime of a SidRef ends
SidRefEnd ==
    \E r \in sidrefs :
        /\ sidrefs' = sidrefs \ {r}
        /\ last' = [LastNone EXCEPT !.op = "sidref_end", !.ret = "Ok", !.alloc = r.ptr.alloc]
        /\ UNCHANGED <<heap, sds, acls, elevTokens, holdsPriv, privEnabled, iters>>

\* Acl::from_ptr: a non-owning Acl
from_ptr(p) == [ptr |-> p, owned |-> FALSE]

\* dacl(&self) -> Option<Acl>: the Acl it returns has no lifetime parameter, so
\* it does not borrow the descriptor
Dacl ==
    \E s \in sds :
        /\ IsNull(s.dacl_ptr) \/ Cardinality(Views) < MaxViews
        /\ acls' = IF IsNull(s.dacl_ptr) THEN acls ELSE acls \cup {from_ptr(s.dacl_ptr)}
        /\ last' = [LastNone EXCEPT !.op = "dacl", !.priv = s.priv,
                                    !.ret = IF IsNull(s.dacl_ptr) THEN "None" ELSE "Some",
                                    !.alloc = s.sd_ptr.alloc]
        /\ UNCHANGED <<heap, sds, sidrefs, elevTokens, holdsPriv,
                       privEnabled, iters>>

(* --------------------------------- Acl --------------------------------- *)

AclStages == {"none", "LocalAlloc", "InitializeAcl"}

\* with_capacity's estimated_size, a usize (64 bits: the hints of the model do
\* not wrap it)
estimated_size(ace_count, sid_max_len) ==
    SizeOfAcl + ace_count * (SizeOfAccessAllowedAce + sid_max_len)

\* estimated_size as u32
AsU32(x) == x % U32Wrap

\* InitializeAcl rejects a length below the ACL header or above the largest
\* AclSize
InitializeAclAccepts(len) == len >= SizeOfAcl /\ len <= MaxAclSize

\* InitializeAcl on block a: an empty ACL whose AclSize is len
InitializeAcl(h, a, len) == [h EXCEPT ![a].size = len, ![a].aces = <<>>]

\* Acl::with_capacity: LocalAlloc of estimated_size, then InitializeAcl with
\* estimated_size as u32 and assert_free! as the cleanup block of
\* winapi_bool_call!; failAt is the call that failed leaving e, after the
\* last-error once the cleanup has run
with_capacity(h, a, ace_count, sid_max_len, failAt, e, after) ==
    LET bytes == estimated_size(ace_count, sid_max_len)
        len == AsU32(bytes) IN
    CASE failAt = "LocalAlloc" ->
            [heap |-> h, ret |-> "Err", code |-> ERROR_OUTOFMEMORY, cleanup |-> FALSE,
             size |-> 0, bytes |-> bytes]
      [] failAt = "InitializeAcl" ->
            [heap |-> assert_free(Allocate(h, a, "acl", NoContent, FALSE), Ptr(a, "acl")),
             ret |-> "Err", code |-> winapi_bool_call(e, TRUE, after), cleanup |-> TRUE,
             size |-> 0, bytes |-> bytes]
      [] OTHER ->
            [heap |-> InitializeAcl(Allocate(h, a, "acl", NoContent, TRUE), a, len),
             ret |-> "Ok", code |-> 0, cleanup |-> FALSE, size |-> len, bytes |-> bytes]

OwningAcls == {v \in acls : v.owned}

\* one call of with_capacity(ace_count, sid_max_len) made as operation op
AclCreate(op, ace_count, sid_max_len) ==
    \E failAt \in AclStages, e \in NativeErrors :
      \E after \in CleanupLastError(e) :
        LET a == NewBlock
            r == with_capacity(heap, a, ace_count, sid_max_len, failAt, e, after) IN
        /\ failAt = "LocalAlloc" \/ FreeSlots # {}
        /\ failAt = "none" =>
              InitializeAclAccepts(AsU32(estimated_size(ace_count, sid_max_len)))
        /\ r.ret = "Ok" => Cardinality(OwningAcls) < MaxAcls
        /\ heap' = r.heap
        /\ acls' = IF r.ret = "Ok" THEN acls \cup {[ptr |-> Ptr(a, "acl"), owned |-> TRUE]}
                   ELSE acls
        /\ last' = [LastNone EXCEPT !.op = op, !.ret = r.ret, !.code = r.code,
                                    !.native = IF failAt = "none" THEN 0 ELSE e,
                                    !.failAt = failAt, !.cleanup = r.cleanup,
                                    !.alloc = IF failAt = "LocalAlloc" THEN 0 ELSE a,
                                    !.owned = r.ret = "Ok",
                                    !.hint = <<ace_count, sid_max_len>>,
                                    !.size = r.size, !.bytes = r.bytes]
        /\ UNCHANGED <<sds, sidrefs, elevTokens, holdsPriv, privEnabled, iters>>

\* Acl::new, Acl::empty
AclEmpty == AclCreate("empty", DEFAULT_ACE_CAPACITY, DEFAULT_SID_MAX_LEN)

\* the hints given to with_capacity, the last one 2^31 - 4 bytes
CapacityHints == {<<1, 3>>, <<2, 536870911>>}

\* Acl::with_capacity(ace_count, sid_max_len)
AclWithCapacity ==
    \E hint \in CapacityHints : AclCreate("with_capacity", hint[1], hint[2])

\* a method of Acl that has the native layer read the ACL (is_valid, ace_count,
\* iteration)
AclRead ==
    \E v \in acls :
        /\ last' = [LastNone EXCEPT !.op = "acl_read", !.ret = "Ok", !.alloc = v.ptr.alloc,
                                    !.freedRead = ~Live(v.ptr.alloc), !.owned = v.owned]
        /\ UNCHANGED <<heap, sds, acls, sidrefs, elevTokens, holdsPriv,
                       privEnabled, iters>>

\* a Drop for Acl that ignores the owned flag
drop_acl_Always(h, v) == assert_free(h, v.ptr)

\* Drop for Acl
drop_acl(h, v) == IF v.owned THEN assert_free(h, v.ptr) ELSE h

\* an Acl value goes out of scope
DropAcl ==
    \E v \in acls :
        /\ \A it \in iters : it.acl # v
        /\ heap' = drop_acl(heap, v)
        /\ acls' = acls \ {v}
        /\ last' = [LastNone EXCEPT !.op = "drop_acl", !.ret = "Ok", !.alloc = v.ptr.alloc,
                                    !.owned = v.owned,
                                    !.flag = (heap' # heap)]
        /\ UNCHANGED <<sds, sidrefs, elevTokens, holdsPriv, privEnabled, iters>>

(* --------------------------- Sid and Ace ------------------------------- *)

ACCESS_ALLOWED_ACE_TYPE == 0
ACCESS_DENIED_ACE_TYPE == 1
SYSTEM_AUDIT_ACE_TYPE == 2

\* the bytes of a SID: its revision, its identifier authority and its
\* sub-authorities
SidOf(rev, auth, sub) == [rev |-> rev, auth |-> auth, sub |-> sub]
\* S-1-1-0 (Everyone), S-1-5-18 (Local System), S-1-5-32-544 (Administrators)
Everyone == SidOf(1, 1, <<0>>)
LocalSystem == SidOf(1, 5, <<18>>)
Administrators == SidOf(1, 5, <<32, 544>>)
\* bytes that encode no SID: the revision is not SID_REVISION
JunkBytes == SidOf(0, 0, <<>>)

Sids == {Everyone, LocalSystem, Administrators}
SidBytes == Sids \cup {JunkBytes}

\* IsValidSid: the revision is 1 and there are at most 15 sub-authorities
IsValidSid(b) == b.rev = 1 /\ Len(b.sub) <= 15

\* GetLengthSid: 8 bytes and 4 for each sub-authority the count byte states;
\* on bytes that are no SID it still reports what that byte gives
GetLengthSid(b) == 2 + Len(b.sub)

\* an entry of an ACL: the type tag of its header, its mask, and the bytes
\* that follow the mask (the SID, in the entries allow and deny append)
Entry(type, mask, tail) == [type |-> type, mask |-> mask, tail |-> tail]

AceSize(x) == SidOffset + GetLengthSid(x.tail)

RECURSIVE BytesInUse(_)
\* AclBytesInUse: the header and the entries
BytesInUse(aces) ==
    IF aces = <<>> THEN SizeOfAcl
    ELSE AceSize(aces[1]) + BytesInUse(Tail(aces))

\* an AddAce that does not look at the room left
AddAce_NoRoomCheck(blk, type, mask, sid) ==
    IF ~IsValidSid(sid)
    THEN [code |-> ERROR_INVALID_SID, aces |-> blk.aces]
    ELSE [code |-> ERROR_SUCCESS, aces |-> Append(blk.aces, Entry(type, mask, sid))]

\* AddAccessAllowedAce / AddAccessDeniedAce on a valid ACL: the entry is put
\* after the last one when the SID is valid and the entry fits in AclSize
AddAce(blk, type, mask, sid) ==
    IF ~IsValidSid(sid)
    THEN [code |-> ERROR_INVALID_SID, aces |-> blk.aces]
    ELSE IF BytesInUse(blk.aces) + AceSize(Entry(type, mask, sid)) > blk.size
    THEN [code |-> ERROR_ALLOTTED_SPACE_EXCEEDED, aces |-> blk.aces]
    ELSE [code |-> ERROR_SUCCESS, aces |-> Append(blk.aces, Entry(type, mask, sid))]

\* Acl::allow
allow(blk, access_mask, sid) == AddAce(blk, ACCESS_ALLOWED_ACE_TYPE, access_mask, sid)

\* a deny that appends an access-allowed entry
deny_AsAllow(blk, access_mask, sid) == AddAce(blk, ACCESS_ALLOWED_ACE_TYPE, access_mask, sid)

\* Acl::deny
deny(blk, access_mask, sid) == AddAce(blk, ACCESS_DENIED_ACE_TYPE, access_mask, sid)

RemoveAt(seq, i) == SubSeq(seq, 1, i - 1) \o SubSeq(seq, i + 1, Len(seq))

\* a remove_ace that deletes the first entry whatever the index
remove_ace_First(blk, index) ==
    IF index >= Len(blk.aces)
    THEN [code |-> ERROR_INVALID_PARAMETER, aces |-> blk.aces]
    ELSE [code |-> ERROR_SUCCESS, aces |-> Tail(blk.aces)]

\* Acl::remove_ace: DeleteAce(self.ptr, index), the index counted from 0
remove_ace(blk, index) ==
    IF index >= Len(blk.aces)
    THEN [code |-> ERROR_INVALID_PARAMETER, aces |-> blk.aces]
    ELSE [code |-> ERROR_SUCCESS, aces |-> RemoveAt(blk.aces, index + 1)]

\* the masks and SIDs given to allow and to deny; a Sid made by from_bytes can
\* hold any bytes
AllowInputs == {<<1, Everyone>>, <<1, JunkBytes>>}
DenyInputs == {<<2, Administrators>>, <<2, JunkBytes>>}

\* the entries of the DACL the text D1 states: an access-allowed entry and an
\* object entry (type 5), whose mask is followed by its flags and GUIDs and
\* not by a SID
D1Entries == <<Entry(ACCESS_ALLOWED_ACE_TYPE, 1, LocalSystem), Entry(5, 1, JunkBytes)>>

\* the AclSize of a DACL the native layer built: its entries fill it
DaclSize == BytesInUse(D1Entries)

\* the SDDL text of one entry: its type, its mask and the constant of its SID
AceText(x) ==
    "(" \o (CASE x.type = ACCESS_ALLOWED_ACE_TYPE -> "A"
              [] x.type = ACCESS_DENIED_ACE_TYPE -> "D"
              [] OTHER -> "OA")
        \o ";;" \o ToString(x.mask) \o ";;;"
        \o (CASE x.tail = LocalSystem -> "SY"
              [] x.tail = Administrators -> "BA"
              [] x.tail = Everyone -> "WD"
              [] OTHER -> "")
        \o ")"

RECURSIVE AcesText(_)
AcesText(aces) ==
    IF aces = <<>> THEN "" ELSE AceText(aces[1]) \o AcesText(Tail(aces))

\* the value of the D: section for a DACL with the given entries
DaclText(aces) == IF aces = D1Entries THEN "D1" ELSE "D:" \o AcesText(aces)

\* the entries a DACL of a descriptor can come to hold
DaclEntryValues ==
    {D1Entries[1], D1Entries[2], Entry(ACCESS_ALLOWED_ACE_TYPE, 1, Everyone),
     Entry(ACCESS_DENIED_ACE_TYPE, 2, Administrators)}

\* the entries of the DACL of a descriptor whose D: section is d
DaclEntries(d) ==
    IF d \in {"none", "NO_ACCESS_CONTROL"} THEN <<>>
    ELSE IF d = "D1" THEN D1Entries
    ELSE CHOOSE aces \in UNION {[1..n -> DaclEntryValues] : n \in 0..MaxAces} :
            DaclText(aces) = d

\* what a read of released memory may find where the ACL was
JunkEntries == <<Entry(5, 0, JunkBytes)>>

\* the entries of the ACL an Acl value points at
EntriesOf(v) ==
    LET blk == heap[v.ptr.alloc] IN
    IF blk.state # "live" THEN JunkEntries
    ELSE IF blk.kind = "acl" THEN blk.aces
    ELSE DaclEntries(blk.content[v.ptr.part])

\* the ACL an Acl value points at: its AclSize and its entries
AclBlock(v) ==
    LET blk == heap[v.ptr.alloc] IN
    [size |-> IF blk.kind = "acl" THEN blk.size ELSE DaclSize, aces |-> EntriesOf(v)]

\* the heap once the native call has left the given entries in the ACL that
\* v points at: an Acl's own block, or the DACL inside a descriptor's block
StoreEntries(h, v, aces) ==
    LET a == v.ptr.alloc IN
    IF h[a].kind = "acl" THEN [h EXCEPT ![a].aces = aces]
    ELSE [h EXCEPT ![a].content = [@ EXCEPT ![v.ptr.part] = DaclText(aces)]]

\* the borrow checker: an AclIter borrows the Acl value it was made from, so
\* an owning Acl cannot be edited while one is alive; the Acl values dacl()
\* returns for one descriptor are equal, one element of acls stands for all of
\* them, and one of them can be edited while another is iterated
Iterated(v) == v.owned /\ \E it \in iters : it.acl = v

\* one allow, deny or remove_ace on an Acl of either variant; r is what the
\* native call does on a live ACL, junk what it returns on released memory
EditEntries(op, v, r, junk, access_mask, sid, index) ==
    LET a == v.ptr.alloc
        code == IF Live(a) THEN r.code ELSE junk IN
    /\ ~Iterated(v)
    /\ Live(a) => junk = ERROR_SUCCESS
    /\ (Live(a) /\ Len(r.aces) > Len(AclBlock(v).aces)) => Len(AclBlock(v).aces) < MaxAces
    /\ heap' = IF Live(a) THEN StoreEntries(heap, v, r.aces) ELSE heap
    /\ last' = [LastNone EXCEPT
                  !.op = op, !.ret = IF code = ERROR_SUCCESS THEN "Ok" ELSE "Err",
                  !.code = winapi_bool_call(code, FALSE, code), !.native = code,
                  !.failAt = IF code = ERROR_SUCCESS THEN "none"
                             ELSE IF op = "remove_ace" THEN "DeleteAce" ELSE "AddAce",
                  !.alloc = a, !.owned = v.owned, !.freedRead = ~Live(a),
                  !.size = AclBlock(v).size, !.aces = AclBlock(v).aces,
                  !.ace = IF op = "remove_ace" THEN <<>> ELSE <<access_mask, sid>>,
                  !.index = index,
                  !.text = IF Live(a) /\ heap[a].kind = "sd"
                           THEN as_sd_string(heap[a].content) ELSE <<>>]
    /\ UNCHANGED <<sds, acls, sidrefs, elevTokens, holdsPriv, privEnabled, iters>>

Allow ==
    \E v \in acls, i \in AllowInputs, junk \in Statuses :
        EditEntries("allow", v, allow(AclBlock(v), i[1], i[2]), junk, i[1], i[2], 0)

Deny ==
    \E v \in acls, i \in DenyInputs, junk \in Statuses :
        EditEntries("deny", v, deny(AclBlock(v), i[1], i[2]), junk, i[1], i[2], 0)

RemoveAce ==
    \E v \in acls, index \in 0..MaxAces, junk \in Statuses :
        EditEntries("remove_ace", v, remove_ace(AclBlock(v), index), junk, 0, <<>>, index)

\* the values of the u8 AceType of an ACE_HEADER
AceTypeTags == 0..255

\* header.AceType as u32, and unknown as u8
U8AsU32(t) == t
AsU8(x) == x % U8Wrap

\* an ace_type that does not know the system-audit tag
ace_type_NoAudit(x) ==
    CASE U8AsU32(x.type) = ACCESS_ALLOWED_ACE_TYPE -> <<"AccessAllowed">>
      [] U8AsU32(x.type) = ACCESS_DENIED_ACE_TYPE -> <<"AccessDenied">>
      [] OTHER -> <<"Unknown", AsU8(U8AsU32(x.type))>>

\* Ace::ace_type: an AceType, Unknown with the byte it was made from
ace_type(x) ==
    CASE U8AsU32(x.type) = ACCESS_ALLOWED_ACE_TYPE -> <<"AccessAllowed">>
      [] U8AsU32(x.type) = ACCESS_DENIED_ACE_TYPE -> <<"AccessDenied">>
      [] U8AsU32(x.type) = SYSTEM_AUDIT_ACE_TYPE -> <<"SystemAudit">>
      [] OTHER -> <<"Unknown", AsU8(U8AsU32(x.type))>>

\* Ace::mask
ace_mask(x) == x.mask

\* Sid::from_bytes: the bytes are copied, whatever they are
from_bytes(bytes) == [ret |-> "Ok", data |-> bytes]

\* Ace::sid: GetLengthSid bytes are copied from where the mask ends and given
\* to Sid::from_bytes
ace_sid(x) == from_bytes(x.tail)

\* what the caller reads of one yielded Ace
AceView(x) == [type |-> ace_type(x), mask |-> ace_mask(x), sid |-> ace_sid(x)]

\* an ace_count that returns the zeroed info as it stands
ace_count_Zeroed(infoOk, nativeCount) == 0

\* Acl::ace_count: info is zeroed, the result of GetAclInformation is not
\* looked at, and info.AceCount is returned
ace_count(infoOk, nativeCount) == IF infoOk THEN nativeCount ELSE 0

\* IntoIterator for &Acl: the count of the AclIter
into_iter(infoOk, nativeCount) == IF infoOk THEN nativeCount ELSE 0

\* Iterator for AclIter, run until it returns None: the entries before index
\* count, or before the first index at which GetAce fails
next_until_none(entries, count, aceFail) ==
    SubSeq(entries, 1, IF aceFail < count THEN aceFail ELSE count)

\* ace_count() on an Acl of either variant; the native call succeeds on a
\* valid ACL and may do anything on released memory
AceCount ==
    \E v \in acls, infoOk \in BOOLEAN :
        LET a == v.ptr.alloc
            entries == EntriesOf(v) IN
        /\ Live(a) => infoOk
        /\ last' = [LastNone EXCEPT
                      !.op = "ace_count", !.ret = "Ok",
                      !.failAt = IF infoOk THEN "none" ELSE "GetAclInformation",
                      !.alloc = a, !.owned = v.owned, !.freedRead = ~Live(a),
                      !.aces = entries, !.count = ace_count(infoOk, Len(entries))]
        /\ UNCHANGED <<heap, sds, acls, sidrefs, elevTokens, holdsPriv, privEnabled, iters>>

\* for ace in &acl: into_iter, then next until None, reading each Ace's type,
\* mask and SID; aceFail is the first index at which GetAce fails
AclIterate ==
    \E v \in acls, infoOk \in BOOLEAN, aceFail \in 0..MaxAces :
        LET a == v.ptr.alloc
            entries == EntriesOf(v)
            count == into_iter(infoOk, Len(entries))
            yielded == next_until_none(entries, count, aceFail) IN
        /\ Live(a) => (infoOk /\ aceFail = MaxAces)
        /\ ~Live(a) => aceFail \in {0, MaxAces}
        /\ last' = [LastNone EXCEPT
                      !.op = "iterate", !.ret = "Ok",
                      !.failAt = IF ~infoOk THEN "GetAclInformation"
                                 ELSE IF aceFail < count THEN "GetAce" ELSE "none",
                      !.alloc = a, !.owned = v.owned, !.freedRead = ~Live(a),
                      !.aces = entries, !.count = count,
                      !.yield = [i \in 1..Len(yielded) |-> AceView(yielded[i])]]
        /\ UNCHANGED <<heap, sds, acls, sidrefs, elevTokens, holdsPriv, privEnabled, iters>>

(* ----------------------------- Sid strings ----------------------------- *)

\* a SID string is "S-" and numbers joined by "-", or a two-letter SDDL SID
\* constant such as "SY"
SidText(fields) == [alias |-> "", fields |-> fields]
AliasText(n) == [alias |-> n, fields |-> <<>>]

Aliases == {"SY", "BA", "WD"}
AliasSid(n) ==
    CASE n = "SY" -> LocalSystem
      [] n = "BA" -> Administrators
      [] n = "WD" -> Everyone

\* ConvertStringSidToSidW: the text is an SDDL SID constant, or S-R-I-S... with
\* revision 1 and at least one sub-authority; ok is FALSE when it is neither
ConvertStringSidToSid(t) ==
    IF t.alias # ""
    THEN IF t.alias \in Aliases THEN [ok |-> TRUE, sid |-> AliasSid(t.alias)]
         ELSE [ok |-> FALSE, sid |-> JunkBytes]
    ELSE IF Len(t.fields) >= 3 /\ t.fields[1] = 1
    THEN [ok |-> TRUE,
          sid |-> SidOf(t.fields[1], t.fields[2], SubSeq(t.fields, 3, Len(t.fields)))]
    ELSE [ok |-> FALSE, sid |-> JunkBytes]

\* a ConvertSidToStringSidW that leaves out the last sub-authority
ConvertSidToStringSid_Short(b) ==
    [ok |-> IsValidSid(b),
     str |-> SidText(<<b.rev, b.auth>> \o SubSeq(b.sub, 1, Len(b.sub) - 1))]

\* ConvertSidToStringSidW: S-R-I-S... of a valid SID
ConvertSidToStringSid(b) ==
    [ok |-> IsValidSid(b), str |-> SidText(<<b.rev, b.auth>> \o b.sub)]

\* the SID strings given to from_string: S-1-1-0, S-1-5-18, S-1-5-32-544, the
\* constants SY and BA, and two malformed ones
SidStrings ==
    {SidText(<<1, 1, 0>>), SidText(<<1, 5, 18>>), SidText(<<1, 5, 32, 544>>),
     AliasText("SY"), AliasText("BA"), AliasText("??"), SidText(<<1>>)}

\* what an allocating native call can fail with for lack of a resource;
\* ERROR_SUCCESS when it does not
ResourceErrors == {ERROR_SUCCESS} \cup NativeErrors

\* Sid::from_string: the bytes ConvertStringSidToSidW allocates are copied
\* and the allocation released; e is the native call's resource failure
from_string(s, e) ==
    LET c == ConvertStringSidToSid(s) IN
    IF ~c.ok THEN [ret |-> "Err", code |-> ERROR_INVALID_SID, data |-> JunkBytes]
    ELSE IF e # ERROR_SUCCESS THEN [ret |-> "Err", code |-> e, data |-> JunkBytes]
    ELSE [ret |-> "Ok", code |-> ERROR_SUCCESS, data |-> c.sid]

\* Sid::to_string and SidRef::to_string
to_string(data, e) ==
    LET c == ConvertSidToStringSid(data) IN
    IF ~c.ok
    THEN [ret |-> "Err", code |-> winapi_bool_call(ERROR_INVALID_SID, FALSE, 0), str |-> <<>>]
    ELSE IF e # ERROR_SUCCESS
    THEN [ret |-> "Err", code |-> winapi_bool_call(e, FALSE, 0), str |-> <<>>]
    ELSE [ret |-> "Ok", code |-> ERROR_SUCCESS, str |-> c.str]

\* Sid::is_valid
is_valid(data) == IsValidSid(data)

SidFromString ==
    \E s \in SidStrings, e \in ResourceErrors :
        LET r == from_string(s, e) IN
        /\ last' = [LastNone EXCEPT !.op = "from_string", !.ret = r.ret, !.code = r.code,
                                    !.native = r.code,
                                    !.failAt = IF r.ret = "Ok" THEN "none"
                                               ELSE "ConvertStringSidToSidW",
                                    !.str = s, !.sid = r.data]
        /\ UNCHANGED <<heap, sds, acls, sidrefs, elevTokens, holdsPriv, privEnabled, iters>>

\* to_string on a Sid; Sid::from_bytes makes one of any bytes
SidToString ==
    \E b \in SidBytes, e \in ResourceErrors :
        LET r == to_string(b, e) IN
        /\ last' = [LastNone EXCEPT !.op = "to_string", !.ret = r.ret, !.code = r.code,
                                    !.native = r.code,
                                    !.failAt = IF r.ret = "Ok" THEN "none"
                                               ELSE "ConvertSidToStringSidW",
                                    !.sid = b, !.str = r.str]
        /\ UNCHANGED <<heap, sds, acls, sidrefs, elevTokens, holdsPriv, privEnabled, iters>>

\* tests/sid_tests.rs test_sid_from_string for any string: from_string, then
\* is_valid and to_string on the Sid it returned
SidRoundTrip ==
    \E s \in SidStrings, e1 \in ResourceErrors, e2 \in ResourceErrors :
        LET r == from_string(s, e1)
            t == to_string(r.data, e2) IN
        /\ r.ret = "Err" => e2 = ERROR_SUCCESS
        /\ last' = [LastNone EXCEPT
                      !.op = "sid_round_trip", !.ret = r.ret, !.code = r.code,
                      !.str = s, !.sid = r.data,
                      !.parsed = IF r.ret = "Ok" THEN <<is_valid(r.data)>> ELSE <<>>,
                      !.printed = IF r.ret = "Ok" THEN <<t>> ELSE <<>>]
        /\ UNCHANGED <<heap, sds, acls, sidrefs, elevTokens, holdsPriv, privEnabled, iters>>

\* the account names given to from_account_name and the SID each resolves
\* to; "nobody" names no account
AccountNames == {"SYSTEM", "Everyone", "nobody"}
Mapped(name) == name \in {"SYSTEM", "Everyone"}
AccountSid(name) == IF name = "SYSTEM" THEN LocalSystem ELSE Everyone

LookupStages == {"none", "LookupAccountNameW(size)", "LocalAlloc", "LookupAccountNameW",
                 "ConvertSidToStringSidW"}

\* sid.rs account::lookup_account_name: the size query, LocalAlloc of the SID
\* buffer a, the lookup with assert_free! as cleanup block, sid_ref.to_string()?
\* and the assert_free! that follows it; the name it returns is the SID string
lookup_account_name(h, a, name, failAt, e, after) ==
    CASE failAt = "LookupAccountNameW(size)" ->
            [heap |-> h, ret |-> "Err", code |-> e, name |-> <<>>]
      [] failAt = "LocalAlloc" ->
            [heap |-> h, ret |-> "Err", code |-> ERROR_OUTOFMEMORY, name |-> <<>>]
      [] failAt = "LookupAccountNameW" ->
            [heap |-> assert_free(Allocate(h, a, "sid", NoContent, FALSE), Ptr(a, "sid")),
             ret |-> "Err", code |-> winapi_bool_call(e, TRUE, after), name |-> <<>>]
      [] failAt = "ConvertSidToStringSidW" ->
            [heap |-> Allocate(h, a, "sid", NoContent, FALSE),
             ret |-> "Err", code |-> to_string(AccountSid(name), e).code, name |-> <<>>]
      [] OTHER ->
            [heap |-> assert_free(Allocate(h, a, "sid", NoContent, FALSE), Ptr(a, "sid")),
             ret |-> "Ok", code |-> ERROR_SUCCESS,
             name |-> to_string(AccountSid(name), ERROR_SUCCESS).str]

\* Sid::from_account_name: lookup_account_name(name).map(|a|
\* Self::from_string(&a.name).unwrap()); unwrap panics on Err
from_account_name(h, a, name, failAt, e, after) ==
    LET l == lookup_account_name(h, a, name, failAt, e, after) IN
    IF l.ret = "Err" THEN [heap |-> l.heap, ret |-> "Err", code |-> l.code, data |-> JunkBytes]
    ELSE LET f == from_string(l.name, IF failAt = "ConvertStringSidToSidW" THEN e
                                      ELSE ERROR_SUCCESS) IN
         [heap |-> l.heap, ret |-> IF f.ret = "Err" THEN "panic" ELSE "Ok",
          code |-> f.code, data |-> f.data]

\* failAt is the native call that failed, leaving e; after is the last-error
\* once a cleanup block has run
SidFromAccountName ==
    \E name \in AccountNames, failAt \in LookupStages \cup {"ConvertStringSidToSidW"},
       e \in NativeErrors \cup {ERROR_NONE_MAPPED} :
      \E after \in CleanupLastError(e) :
        LET a == NewBlock
            r == from_account_name(heap, a, name, failAt, e, after) IN
        /\ failAt \in {"LookupAccountNameW(size)", "LocalAlloc"} \/ FreeSlots # {}
        /\ ~Mapped(name) <=> (failAt = "LookupAccountNameW(size)" /\ e = ERROR_NONE_MAPPED)
        /\ heap' = r.heap
        /\ last' = [LastNone EXCEPT
                      !.op = "from_account_name", !.ret = r.ret, !.code = r.code,
                      !.native = IF failAt = "none" THEN 0 ELSE e, !.failAt = failAt,
                      !.alloc = IF failAt \in {"LookupAccountNameW(size)", "LocalAlloc"}
                                THEN 0 ELSE a,
                      !.sid = r.data]
        /\ UNCHANGED <<sds, acls, sidrefs, elevTokens, holdsPriv, privEnabled, iters>>

(* ------------------- descriptors with a NULL DACL ---------------------- *)

\* the SDDL text "G:SY D:NO_ACCESS_CONTROL": its DACL is present and NULL
NullDaclText == <<[tag |-> "G", val |-> "SY"], [tag |-> "D", val |-> "NO_ACCESS_CONTROL"]>>

\* the strings given to str::parse
SdStrings == Texts \cup {NullDaclText}

\* FromStr for SecurityDescriptorImpl<P>: from_str(s) is from_sd_string(s)
SdFromStr ==
    \E priv \in Levels, t \in SdStrings, failAt \in SdStringStages, e \in NativeErrors :
        LET a == NewBlock
            c == NativeStringToSd(t) IN
        /\ failAt = "ConvertStringSecurityDescriptorToSecurityDescriptorW" \/ FreeSlots # {}
        /\ heap' = from_sd_string_heap(heap, a, c, failAt)
        /\ sds' = IF failAt = "none" THEN sds \cup {SdValue(priv, a, c)} ELSE sds
        /\ last' = [LastNone EXCEPT
                      !.op = "from_str", !.priv = priv,
                      !.ret = IF failAt = "none" THEN "Ok" ELSE "Err",
                      !.code = IF failAt = "none" THEN 0 ELSE winapi_bool_call(e, FALSE, e),
                      !.native = IF failAt = "none" THEN 0 ELSE e,
                      !.failAt = failAt, !.str = t,
                      !.alloc = IF failAt = "ConvertStringSecurityDescriptorToSecurityDescriptorW"
                                THEN 0 ELSE a]
        /\ UNCHANGED <<acls, sidrefs, elevTokens, holdsPriv, privEnabled, iters>>

(* ------------------------------ Trustee -------------------------------- *)

\* the characters of the account names given to from_name: 'A', '\', U+00E9
\* and U+1F600, which UTF-16 writes as a surrogate pair
NameChars == {65, 92, 233, 128512}
\* the account names: every string of at most MaxNameLen characters
Names == UNION {[1..n -> NameChars] : n \in 0..MaxNameLen}

RECURSIVE encode_wide(_)
\* OsStr::encode_wide: the UTF-16 code units of a string
encode_wide(s) ==
    IF s = <<>> THEN <<>>
    ELSE (IF s[1] < 65536 THEN <<s[1]>>
          ELSE <<55296 + ((s[1] - 65536) \div 1024), 56320 + ((s[1] - 65536) % 1024)>>)
         \o encode_wide(Tail(s))

\* WideCString::new: the code units of s and a terminating 0, all in inner
WideCString_new(s) == encode_wide(s) \o <<0>>

IsHighSurrogate(u) == u >= 55296 /\ u <= 56319
IsLowSurrogate(u) == u >= 56320 /\ u <= 57343

RECURSIVE from_utf16_lossy(_)
\* String::from_utf16_lossy: a surrogate pair is one character, a lone
\* surrogate is U+FFFD, every other unit (0 included) is the character itself
from_utf16_lossy(w) ==
    IF w = <<>> THEN <<>>
    ELSE IF Len(w) >= 2 /\ IsHighSurrogate(w[1]) /\ IsLowSurrogate(w[2])
    THEN <<65536 + (w[1] - 55296) * 1024 + (w[2] - 56320)>>
         \o from_utf16_lossy(SubSeq(w, 3, Len(w)))
    ELSE <<IF IsHighSurrogate(w[1]) \/ IsLowSurrogate(w[1]) THEN 65533 ELSE w[1]>>
         \o from_utf16_lossy(Tail(w))

\* WideCString::as_string: every unit of inner is converted
as_string(inner) == from_utf16_lossy(inner)

\* Trustee::from_name: the trustee owns the wide name
from_name(name) ==
    [TrusteeForm |-> "TRUSTEE_IS_NAME", _inner_wide_name |-> <<WideCString_new(name)>>]

\* Trustee::from_sid_ref: the trustee points at the SID and owns no name
from_sid_ref(sid) ==
    [TrusteeForm |-> "TRUSTEE_IS_SID", _inner_wide_name |-> <<>>]

\* Trustee::get_name: None (<<>>) or Some of the wide name as a String
get_name(t) ==
    IF t._inner_wide_name = <<>> THEN <<>>
    ELSE <<as_string(t._inner_wide_name[1])>>

\* Trustee::from_name(name), then get_name() on the trustee
TrusteeFromName ==
    \E name \in Names :
        LET t == from_name(name) IN
        /\ last' = [LastNone EXCEPT !.op = "trustee_from_name", !.ret = "Ok",
                                    !.str = name, !.parsed = <<t.TrusteeForm>>,
                                    !.printed = get_name(t)]
        /\ UNCHANGED <<heap, sds, acls, sidrefs, elevTokens, holdsPriv, privEnabled, iters>>

\* sid.as_trustee() on an owned Sid, then get_name() on the trustee
TrusteeFromSid ==
    \E b \in SidBytes :
        LET t == from_sid_ref(b) IN
        /\ last' = [LastNone EXCEPT !.op = "trustee_from_sid", !.ret = "Ok",
                                    !.sid = b, !.parsed = <<t.TrusteeForm>>,
                                    !.printed = get_name(t)]
        /\ UNCHANGED <<heap, sds, acls, sidrefs, elevTokens, holdsPriv, privEnabled, iters>>

(* ------------------------- the type of an Ace -------------------------- *)

\* ace_type() on an Ace whose header holds the type tag t
AceTypeOf ==
    \E t \in AceTypeTags :
        LET x == Entry(t, 1, Everyone) IN
        /\ last' = [LastNone EXCEPT !.op = "ace_type", !.ret = "Ok", !.index = t,
                                    !.ace = <<x>>, !.yield = <<ace_type(x)>>]
        /\ UNCHANGED <<heap, sds, acls, sidrefs, elevTokens, holdsPriv, privEnabled, iters>>

(* ------------------------------- AclIter ------------------------------- *)

\* IntoIterator for &Acl: an AclIter at index 0 with the AceCount that
\* GetAclInformation reports, 0 when the call fails; born and yielded record
\* the entries of the ACL at that time and the entries next has returned
IntoIter ==
    \E v \in acls, infoOk \in BOOLEAN :
        LET a == v.ptr.alloc
            entries == EntriesOf(v)
            count == into_iter(infoOk, Len(entries)) IN
        /\ Cardinality(iters) < MaxIters
        /\ Live(a) => infoOk
        /\ iters' = iters \cup {[acl |-> v, index |-> 0, count |-> count, born |-> entries,
                                 yielded |-> <<>>, visited |-> <<>>, done |-> FALSE]}
        /\ last' = [LastNone EXCEPT
                      !.op = "into_iter", !.ret = "Ok",
                      !.failAt = IF infoOk THEN "none" ELSE "GetAclInformation",
                      !.alloc = a, !.owned = v.owned, !.freedRead = ~Live(a),
                      !.aces = entries, !.count = count]
        /\ UNCHANGED <<heap, sds, acls, sidrefs, elevTokens, holdsPriv, privEnabled>>

\* Iterator for AclIter, one call of next: None when index has reached count
\* or GetAce fails, else the Ace at index, and index grows by one; GetAce
\* succeeds on a valid ACL when it holds an entry at index, and may do
\* anything on released memory
IterNext ==
    \E it \in iters, aceOk \in BOOLEAN :
        LET a == it.acl.ptr.alloc
            entries == EntriesOf(it.acl)
            exhausted == it.index >= it.count
            some == ~exhausted /\ aceOk
            x == IF Live(a) THEN entries[it.index + 1] ELSE JunkEntries[1] IN
        /\ exhausted => aceOk
        /\ (~exhausted /\ Live(a)) => (aceOk <=> it.index < Len(entries))
        /\ iters' = (iters \ {it}) \cup
                    {IF some
                     THEN [it EXCEPT !.index = @ + 1, !.yielded = Append(@, x),
                                     !.visited = Append(@, it.index)]
                     ELSE [it EXCEPT !.done = @ \/ exhausted]}
        /\ last' = [LastNone EXCEPT
                      !.op = "next", !.ret = IF some THEN "Some" ELSE "None",
                      !.failAt = IF exhausted \/ aceOk THEN "none" ELSE "GetAce",
                      !.alloc = a, !.owned = it.acl.owned, !.freedRead = ~Live(a),
                      !.aces = it.born, !.index = it.index, !.count = it.count,
                      !.flag = it.done,
                      !.yield = IF some THEN <<AceView(x)>> ELSE <<>>]
        /\ UNCHANGED <<heap, sds, acls, sidrefs, elevTokens, holdsPriv, privEnabled>>

\* an AclIter goes out of scope
IterEnd ==
    \E it \in iters :
        /\ iters' = iters \ {it}
        /\ last' = [LastNone EXCEPT !.op = "iter_end", !.ret = "Ok",
                                    !.alloc = it.acl.ptr.alloc, !.owned = it.acl.owned]
        /\ UNCHANGED <<heap, sds, acls, sidrefs, elevTokens, holdsPriv, privEnabled>>

(* ------------------------------ is_admin ------------------------------- *)

AdminStages == {"none", "OpenProcessToken", "GetTokenInformation"}

\* an is_admin whose GetTokenInformation call has no cleanup block
is_admin_NoCleanup(failAt, e, after, elevated) ==
    CASE failAt = "OpenProcessToken" ->
            [ret |-> "Err", code |-> winapi_bool_call(e, FALSE, after), native |-> e,
             cleanup |-> FALSE, closes |-> 0, flag |-> FALSE]
      [] failAt = "GetTokenInformation" ->
            [ret |-> "Err", code |-> winapi_bool_call(e, FALSE, after), native |-> e,
             cleanup |-> FALSE, closes |-> 0, flag |-> FALSE]
      [] OTHER ->
            [ret |-> "Ok", code |-> 0, native |-> 0, cleanup |-> FALSE, closes |-> 1,
             flag |-> elevated]

\* elevated.rs is_admin: OpenProcessToken, then GetTokenInformation with
\* CloseHandle as its cleanup block, then CloseHandle; elevated is the
\* TokenIsElevated the query reports
is_admin(failAt, e, after, elevated) ==
    CASE failAt = "OpenProcessToken" ->
            [ret |-> "Err", code |-> winapi_bool_call(e, FALSE, after), native |-> e,
             cleanup |-> FALSE, closes |-> 0, flag |-> FALSE]
      [] failAt = "GetTokenInformation" ->
            [ret |-> "Err", code |-> winapi_bool_call(e, TRUE, after), native |-> e,
             cleanup |-> TRUE, closes |-> 1, flag |-> FALSE]
      [] OTHER ->
            [ret |-> "Ok", code |-> 0, native |-> 0, cleanup |-> FALSE, closes |-> 1,
             flag |-> elevated]

\* one call of is_admin(); failAt is the native call that returned FALSE,
\* leaving e, after the last-error once the cleanup block has run
IsAdmin ==
    \E failAt \in AdminStages, e \in NativeErrors, elevated \in BOOLEAN :
      \E after \in CleanupLastError(e) :
        LET r == is_admin(failAt, e, after, elevated) IN
        /\ failAt # "none" => ~elevated
        /\ last' = [LastNone EXCEPT !.op = "is_admin", !.ret = r.ret, !.code = r.code,
                                    !.native = r.native, !.failAt = failAt,
                                    !.cleanup = r.cleanup, !.closes = r.closes,
                                    !.flag = r.flag]
        /\ UNCHANGED <<heap, sds, acls, sidrefs, elevTokens, holdsPriv, privEnabled, iters>>

(* ------------------- the bytes a Sid owns and reads of them ------------ *)

\* the layout of a SID: Revision at byte 0, SubAuthorityCount at byte 1, the
\* identifier authority up to byte 8, then 4 bytes for each sub-authority
SidCountEnd == 2
SidFixedBytes == 8
SubAuthorityBytes == 4
SID_MAX_SUB_AUTHORITIES == 15

\* a byte slice as the native layer sees it: its length, and the Revision and
\* SubAuthorityCount bytes when it is long enough to hold them (0 otherwise)
Slice(len, rev, count) == [len |-> len, rev |-> rev, count |-> count]

\* the slices given to Sid::from_bytes: empty, one byte, a header alone, and 8,
\* 12 or 16 bytes declaring 0, 1 or 2 sub-authorities
ByteSlices ==
    {Slice(0, 0, 0), Slice(1, 0, 0), Slice(1, 1, 0)}
    \cup {Slice(n, r, c) : n \in {2, 8, 12, 16}, r \in {0, 1}, c \in {0, 1, 2}}

\* the data of a Sid that from_string or from_account_name made: the bytes of
\* the SID and no more
DataOf(b) ==
    Slice(SubAuthorityBytes * GetLengthSid(b), b.rev, Len(b.sub))

\* the data of a Sid that from_bytes made: bytes.to_vec(), without a look
from_bytes_data(slice) == slice

\* the methods of Sid that hand self.data.as_ptr() to a native call
SidReadOps ==
    {"Sid::is_valid", "Sid::len", "Sid::to_string", "Sid::lookup_name",
     "Acl::allow(sid)", "Acl::deny(sid)"}

\* the number of bytes from the pointer on that the native call reads:
\* IsValidSid and GetLengthSid read the Revision and SubAuthorityCount bytes;
\* the conversions, the lookup and AddAce do, and for a header they accept go
\* on to the identifier authority and the sub-authorities it declares; seen is
\* the header the call finds
BytesRead(op, seen) ==
    IF op \in {"Sid::is_valid", "Sid::len"} THEN SidCountEnd
    ELSE IF seen.rev = 1 /\ seen.count <= SID_MAX_SUB_AUTHORITIES
    THEN SidFixedBytes + SubAuthorityBytes * seen.count
    ELSE SidCountEnd

\* one native read made for an owned Sid; junk is the header a read past the
\* end of the data may find
SidNativeRead ==
    \E b \in Sids, slice \in ByteSlices, made \in {"from_string", "from_bytes"},
       op \in SidReadOps, junk \in {Slice(0, 0, 0), Slice(0, 1, 1)} :
        LET data == IF made = "from_bytes" THEN from_bytes_data(slice) ELSE DataOf(b)
            seen == IF data.len >= SidCountEnd THEN data ELSE junk IN
        /\ made = "from_bytes" => b = Everyone
        /\ made = "from_string" => slice = Slice(0, 0, 0)
        /\ data.len >= SidCountEnd => junk = Slice(0, 0, 0)
        /\ last' = [LastNone EXCEPT !.op = op, !.ret = "Ok", !.failAt = made,
                                    !.sid = data, !.size = data.len,
                                    !.bytes = BytesRead(op, seen)]
        /\ UNCHANGED <<heap, sds, acls, sidrefs, elevTokens, holdsPriv, privEnabled, iters>>

(* --------------------------- specification ----------------------------- *)

Next ==
    \/ TryElevate
    \/ DropPrivileges
    \/ FromPath
    \/ FromHandle
    \/ ElevatedFromPath
    \/ ElevatedFromHandle
    \/ FromSdString
    \/ Upgrade
    \/ DropSd
    \/ SdFlag
    \/ AsSdString
    \/ OwnerSid
    \/ GroupSid
    \/ SidRefRead
    \/ SidRefEnd
    \/ Dacl
    \/ AclEmpty
    \/ AclRead
    \/ DropAcl

Spec == Init /\ [][Next]_vars

\* the privilege typestate and the path and handle queries alone
NextPrivilege ==
    \/ TryElevate
    \/ DropPrivileges
    \/ FromPath
    \/ FromHandle
    \/ ElevatedFromPath
    \/ ElevatedFromHandle
    \/ Upgrade
    \/ DropSd

SpecPrivilege == Init /\ [][NextPrivilege]_vars

\* the owning and the non-owning Acl, with the descriptors the views come from
NextAcl ==
    \/ FromSdString
    \/ Dacl
    \/ AclEmpty
    \/ AclRead
    \/ DropAcl
    \/ DropSd

SpecAcl == Init /\ [][NextAcl]_vars

\* an owning Acl and its entries
NextAce ==
    \/ AclEmpty
    \/ AclWithCapacity
    \/ Allow
    \/ Deny
    \/ RemoveAce
    \/ AceCount
    \/ AclIterate
    \/ DropAcl

SpecAce == Init /\ [][NextAce]_vars

\* the Acl of a descriptor's DACL and its entries
NextAceView ==
    \/ FromSdString
    \/ Dacl
    \/ AceCount
    \/ AclIterate
    \/ DropAcl
    \/ DropSd

SpecAceView == Init /\ [][NextAceView]_vars

\* the owned Sid: its strings and the account lookup
NextSid ==
    \/ SidFromString
    \/ SidToString
    \/ SidRoundTrip
    \/ SidFromAccountName

SpecSid == Init /\ [][NextSid]_vars

\* descriptors made from text and their text
NextSdString ==
    \/ FromSdString
    \/ SdFlag
    \/ AsSdString
    \/ SdRoundTrip
    \/ DropSd

SpecSdString == Init /\ [][NextSdString]_vars

\* parsed descriptors, their flags and their DACL
NextSdQuery ==
    \/ SdFromStr
    \/ SdFlag
    \/ Dacl
    \/ DropAcl
    \/ DropSd

SpecSdQuery == Init /\ [][NextSdQuery]_vars

\* queried descriptors of either level and their flags
NextSdFlags ==
    \/ TryElevate
    \/ DropPrivileges
    \/ FromPath
    \/ ElevatedFromPath
    \/ Upgrade
    \/ SdFlag
    \/ DropSd

SpecSdFlags == Init /\ [][NextSdFlags]_vars

\* trustees and their names
NextTrustee ==
    \/ TrusteeFromName
    \/ TrusteeFromSid

SpecTrustee == Init /\ [][NextTrustee]_vars

\* the type of an Ace, for every type tag
NextAceType ==
    \/ AceTypeOf

SpecAceType == Init /\ [][NextAceType]_vars

\* the Acl of a descriptor's DACL, edited through the view
NextView ==
    \/ FromPath
    \/ Dacl
    \/ Allow
    \/ Deny
    \/ RemoveAce
    \/ AsSdString
    \/ DropAcl
    \/ DropSd

SpecView == Init /\ [][NextView]_vars

\* the Acl of the DACL of a descriptor read from a path, edited while it is
\* iterated
NextIter ==
    \/ FromPath
    \/ Dacl
    \/ Allow
    \/ RemoveAce
    \/ IntoIter
    \/ IterNext
    \/ IterEnd

SpecIter == Init /\ [][NextIter]_vars

\* the operations that open the process token, and the Elevated queries the
\* token of try_elevate is for
NextToken ==
    \/ TryElevate
    \/ DropPrivileges
    \/ IsAdmin
    \/ ElevatedFromPath
    \/ DropSd

SpecToken == Init /\ [][NextToken]_vars

\* the native reads of owned Sids
NextSidRead ==
    \/ SidNativeRead

SpecSidRead == Init /\ [][NextSidRead]_vars

(* ------------------------------- claims --------------------------------- *)

Owner(a) == {s \in sds : s.sd_ptr.alloc = a}

\* C1: the descriptor allocation of every SecurityDescriptor that was
\* constructed is released by LocalFree exactly once: never twice, and once
\* no value owns it any more, not zero times.
C1_ReleasedExactlyOnce ==
    \A a \in Allocs :
        (heap[a].kind = "sd" /\ heap[a].owned) =>
            /\ heap[a].frees <= 1
            /\ (Owner(a) = {} => heap[a].frees = 1)

\* C2: when upgrade returns, an Elevated descriptor holds the same five
\* pointers as the consumed one and the allocation they point into has not
\* been released.
C2_UpgradeKeepsAllocation ==
    last.op = "upgrade" =>
        /\ \E s \in sds : s.priv = "Elevated" /\ Pointers(s) = last.ptrs
        /\ heap[last.alloc].state = "live"

Constructors == {"from_path", "from_handle", "from_sd_string", "upgrade"}

\* C3: an Elevated descriptor exists only if try_elevate succeeded in this
\* process, and every operation that returns one was given an Elevated token.
C3_ElevatedNeedsToken ==
    /\ \A s \in sds : s.priv = "Elevated" => privEnabled
    /\ (last.op \in Constructors /\ last.ret = "Ok" /\ last.priv = "Elevated") => last.token

\* what an operation of the Unprivileged API returns, or lets the caller read
\* through the view it returns, for a live descriptor holding c
UnprivilegedOps == FlagAccessors \cup {"as_sd_string", "owner_sid", "group_sid", "dacl"}
UnprivilegedResult(c, op) ==
    CASE op \in FlagAccessors -> <<NativeFlag(c, op)>>
      [] op = "as_sd_string" -> as_sd_string(c)
      [] op = "owner_sid" -> <<c.o>>
      [] op = "group_sid" -> <<c.g>>
      [] op = "dacl" -> <<c.d>>

DifferOnlyInSaclEntries(c1, c2) ==
    /\ c1.o = c2.o /\ c1.g = c2.g /\ c1.d = c2.d /\ c1.dflt = c2.dflt
    /\ c1.s # "none" /\ c2.s # "none" /\ c1.s # c2.s

\* C4: two Unprivileged descriptors that differ only in the entries of their
\* SACL give the same result for every operation of the Unprivileged API.
C4_SaclHiddenFromUnprivileged ==
    \A s1, s2 \in sds :
        LET a1 == s1.sd_ptr.alloc
            a2 == s2.sd_ptr.alloc IN
        (/\ s1.priv = "Unprivileged" /\ s2.priv = "Unprivileged"
         /\ Live(a1) /\ Live(a2)
         /\ DifferOnlyInSaclEntries(heap[a1].content, heap[a2].content)) =>
            \A op \in UnprivilegedOps :
                UnprivilegedResult(heap[a1].content, op) = UnprivilegedResult(heap[a2].content, op)

\* C5: try_elevate returns Ok only when the three native calls succeeded and
\* the last-error read after AdjustTokenPrivileges was ERROR_SUCCESS, and then
\* the privilege is enabled; in every other case it returns Err; an Elevated
\* token exists only while the privilege is enabled.
C5_ElevateOnlyOnSuccess ==
    /\ (last.op = "try_elevate" /\ last.ret = "Ok") =>
            (last.failAt = "none" /\ last.adjErr = ERROR_SUCCESS /\ privEnabled)
    /\ (last.op = "try_elevate" /\ (last.failAt # "none" \/ last.adjErr # ERROR_SUCCESS)) =>
            last.ret = "Err"
    /\ elevTokens > 0 => privEnabled

\* AdjustTokenPrivileges returned TRUE without assigning the privilege, and
\* try_elevate returned Err
C5_Witness ==
    /\ last.op = "try_elevate" /\ last.failAt = "none" /\ last.adjErr # ERROR_SUCCESS
    /\ last.ret = "Err" /\ elevTokens = 0

\* C6: the native query of the Unprivileged from_path and from_handle asks for
\* exactly OWNER, GROUP and DACL; that of the Elevated ones, made while an
\* Elevated token exists, asks for those three and SACL.
C6_QueryFlags ==
    last.op \in {"from_path", "from_handle"} =>
        /\ last.priv = "Unprivileged" => last.flags = {"OWNER", "GROUP", "DACL"}
        /\ last.priv = "Elevated" =>
              (last.flags = {"OWNER", "GROUP", "DACL", "SACL"} /\ elevTokens > 0)

\* an Elevated from_handle query succeeded
C6_Witness ==
    /\ last.op = "from_handle" /\ last.priv = "Elevated" /\ last.ret = "Ok"
    /\ "SACL" \in last.flags

\* C7: no read through a borrowed view (a SidRef, a non-owning Acl) touches an
\* allocation that has been released.
C7_NoViewOfReleasedMemory ==
    last.op \in {"sidref_read", "acl_read"} => ~last.freedRead

\* C8: dropping an Acl changes the heap exactly when the Acl is the owning
\* variant, and then it releases the Acl's own block, once; dropping a
\* non-owning Acl leaves every allocation, its parent's included, as it was.
C8_DropAclReleasesIffOwned ==
    last.op = "drop_acl" =>
        /\ last.flag = last.owned
        /\ last.owned => (heap[last.alloc].state = "freed" /\ heap[last.alloc].frees = 1)
        /\ ~last.owned => heap[last.alloc].kind = "sd"

\* a non-owning Acl was dropped and its parent descriptor is alive and valid
C8_Witness ==
    /\ last.op = "drop_acl" /\ ~last.owned
    /\ Owner(last.alloc) # {} /\ Live(last.alloc)

\* C9: no constructor of SecurityDescriptor returns Err leaving the
\* allocation it obtained unreleased: a live descriptor block has an owner.
C9_NoLeakOnFailure ==
    /\ \A a \in Allocs : (heap[a].kind = "sd" /\ Live(a)) => Owner(a) # {}
    /\ (last.op \in Constructors /\ last.ret = "Err" /\ last.alloc # 0) =>
            heap[last.alloc].state = "freed"

\* C10: the WinError of a failed boolean-returning call or of a failed
\* GetNamedSecurityInfoW carries the code that call itself reported.
C10_ErrorCodePreserved ==
    (last.ret = "Err" /\ last.failAt # "LocalAlloc") => last.code = last.native

\* C11: a failure of GetAclInformation or of GetAce is not swallowed: when the
\* native call behind ace_count() failed the method does not report 0, and
\* when one behind an iteration failed the iteration does not yield fewer
\* entries than the ACL holds.
C11_NativeFailureNotSwallowed ==
    /\ (last.op = "ace_count" /\ last.failAt # "none") =>
            ~(last.ret = "Ok" /\ last.count = 0)
    /\ (last.op = "iterate" /\ last.failAt # "none") =>
            ~(last.ret = "Ok" /\ Len(last.yield) < Len(last.aces))

\* C12: Sid::from_account_name does not panic: whichever native call fails,
\* the name lookup or a SID-string conversion made after it, it returns Err,
\* and it returns Ok when none fails.
C12_FromAccountNameNeverPanics ==
    last.op = "from_account_name" =>
        /\ last.ret # "panic"
        /\ last.failAt # "none" => last.ret = "Err"
        /\ last.failAt = "none" => last.ret = "Ok"

\* the entries now in the block the last operation worked on
EntriesNow == heap[last.alloc].aces

\* C13: an owning Acl starts with no entry; a successful allow or deny adds
\* one to the number of entries and a successful remove_ace takes one off, a
\* call that returns Err leaves the entries as they were, and ace_count()
\* reports the number of entries, so it equals the successful allow and deny
\* calls minus the successful remove_ace calls.
C13_AceCountTracksCalls ==
    /\ (last.op \in {"empty", "with_capacity"} /\ last.ret = "Ok") => Len(EntriesNow) = 0
    /\ (last.op \in {"allow", "deny"} /\ last.ret = "Ok") =>
            Len(EntriesNow) = Len(last.aces) + 1
    /\ (last.op = "remove_ace" /\ last.ret = "Ok") => Len(EntriesNow) = Len(last.aces) - 1
    /\ (last.op \in {"allow", "deny", "remove_ace"} /\ last.ret = "Err") =>
            EntriesNow = last.aces
    /\ (last.op = "ace_count" /\ last.owned) => last.count = Len(EntriesNow)

\* ace_count() reports 2 on an owning Acl
C13_Witness ==
    /\ last.op = "ace_count" /\ last.owned /\ last.count = 2
    /\ Len(EntriesNow) = 2

C15_CapacityHoldsHintedEntries ==
    (last.op \in {"empty", "with_capacity"} /\ last.ret = "Ok") =>
        \A b \in Sids :
            GetLengthSid(b) <= last.hint[2] =>
                last.size >= SizeOfAcl + last.hint[1] * (SidOffset + GetLengthSid(b))

\* C16: remove_ace(index) with index not below the number of entries returns
\* Err with the native error and changes nothing; with index below it, it
\* returns Ok and the entries are the former ones without the one at index, in
\* the same order.
C16_RemoveAtIndex ==
    last.op = "remove_ace" =>
        /\ last.index >= Len(last.aces) =>
              (/\ last.ret = "Err" /\ last.code # ERROR_SUCCESS /\ last.code = last.native
               /\ EntriesNow = last.aces)
        /\ last.index < Len(last.aces) =>
              (/\ last.ret = "Ok"
               /\ Len(EntriesNow) = Len(last.aces) - 1
               /\ \A i \in 1..Len(EntriesNow) :
                     EntriesNow[i] = last.aces[IF i <= last.index THEN i ELSE i + 1])

\* the second of two entries was removed and the first one stayed
C16_Witness ==
    /\ last.op = "remove_ace" /\ last.ret = "Ok" /\ last.index = 1
    /\ Len(last.aces) = 2 /\ EntriesNow = <<last.aces[1]>>

\* C17: a successful allow or deny puts its entry after the ones the Acl
\* holds, and iterating an owning Acl yields one Ace for each entry, in that
\* order, whose ace_type is AccessAllowed for an allow and AccessDenied for a
\* deny and whose mask and SID are those of the call.
C17_IterationYieldsAppended ==
    /\ (last.op \in {"allow", "deny"} /\ last.ret = "Ok") =>
          EntriesNow = Append(last.aces,
                              [type |-> IF last.op = "allow" THEN 0 ELSE 1,
                               mask |-> last.ace[1], tail |-> last.ace[2]])
    /\ (last.op = "iterate" /\ last.owned) =>
          /\ Len(last.yield) = Len(EntriesNow)
          /\ \A i \in 1..Len(last.yield) :
                /\ last.yield[i].type =
                      (IF EntriesNow[i].type = 0 THEN <<"AccessAllowed">>
                       ELSE <<"AccessDenied">>)
                /\ last.yield[i].mask = EntriesNow[i].mask
                /\ last.yield[i].sid = [ret |-> "Ok", data |-> EntriesNow[i].tail]

\* an iteration yielded an allow entry and, after it, a deny entry
C17_Witness ==
    /\ last.op = "iterate" /\ last.owned /\ Len(last.yield) = 2
    /\ last.yield[1].type = <<"AccessAllowed">> /\ last.yield[2].type = <<"AccessDenied">>
    /\ last.yield[1].mask # last.yield[2].mask

\* C18: Ace::sid() of a yielded Ace returns Ok exactly when the bytes that
\* follow the mask of the entry are a valid SID.
C18_AceSidChecksBytes ==
    (last.op = "iterate" /\ ~last.freedRead) =>
        \A i \in 1..Len(last.yield) :
            (last.yield[i].sid.ret = "Ok") <=> IsValidSid(last.aces[i].tail)

\* the SID strings in the form ConvertSidToStringSidW writes
CanonicalSidStrings ==
    {SidText(<<1, 1, 0>>), SidText(<<1, 5, 18>>), SidText(<<1, 5, 32, 544>>)}
\* the SID strings ConvertStringSidToSidW takes
ValidSidStrings == CanonicalSidStrings \cup {AliasText("SY"), AliasText("BA")}

LastSd == CHOOSE s \in sds : s.sd_ptr.alloc = last.alloc

\* C21: a dacl_present() that returns Ok returns true exactly when the
\* descriptor's DACL pointer is not null, which is exactly when dacl() returns
\* Some; dacl() returns None exactly when that pointer is null.
C21_DaclPresentIffNonNull ==
    /\ (last.op = "dacl_present" /\ last.ret = "Ok") =>
            (last.flag <=> ~IsNull(LastSd.dacl_ptr))
    /\ last.op = "dacl" => (last.ret = "None" <=> IsNull(LastSd.dacl_ptr))

\* the field whose SE_*_DEFAULTED flag an accessor reports
DefaultedField(op) ==
    CASE op = "owner_defaulted" -> "OWNER"
      [] op = "group_defaulted" -> "GROUP"
      [] op = "dacl_defaulted" -> "DACL"
      [] op = "sacl_defaulted" -> "SACL"

C23_DropPrivilegesDisables ==
    last.op = "drop_privileges" => ~privEnabled

\* C24: get_name() on a trustee made by from_name(name) returns Some of
\* exactly name, and on a trustee made from a SID it returns None.
C24_GetNameReturnsName ==
    /\ last.op = "trustee_from_name" => last.printed = <<last.str>>
    /\ last.op = "trustee_from_sid" => last.printed = <<>>

\* C25: ace_type() returns for every one of the 256 type tags: AccessAllowed
\* for 0, AccessDenied for 1, SystemAudit for 2, and Unknown(t) for every
\* other tag t.
C25_AceTypeTotal ==
    last.op = "ace_type" =>
        /\ last.ret = "Ok" /\ last.index \in 0..255 /\ Len(last.yield) = 1
        /\ last.index = 0 => last.yield[1] = <<"AccessAllowed">>
        /\ last.index = 1 => last.yield[1] = <<"AccessDenied">>
        /\ last.index = 2 => last.yield[1] = <<"SystemAudit">>
        /\ last.index > 2 => last.yield[1] = <<"Unknown", last.index>>

\* ace_type() returned SystemAudit
C25_Witness ==
    /\ last.op = "ace_type" /\ last.index = 2 /\ last.ace[1].type = 2
    /\ last.yield = <<<<"SystemAudit">>>>

\* C30: an allow, deny or remove_ace on the non-owning Acl that dacl()
\* returned leaves the DACL of the parent descriptor as it was: the entries
\* and the text as_sd_string() gives are those of before the call.
C30_ViewIsReadOnly ==
    (last.op \in {"allow", "deny", "remove_ace"} /\ ~last.owned /\ ~last.freedRead) =>
        /\ DaclEntries(heap[last.alloc].content.d) = last.aces
        /\ as_sd_string(heap[last.alloc].content) = last.text

\* C26: an AclIter has yielded at most as many entries as the ACL held when it
\* was made, at the indices 0, 1, 2, ... in that order; every entry it has
\* yielded was in the ACL when it was made; and a next() that follows one that
\* returned None with the count exhausted returns None.
C26_IteratorSeesCapturedEntries ==
    /\ \A it \in iters :
          /\ Len(it.yielded) <= Len(it.born)
          /\ it.visited = [i \in 1..Len(it.visited) |-> i - 1]
          /\ \A i \in 1..Len(it.yielded) :
                \E j \in 1..Len(it.born) : it.born[j] = it.yielded[i]
    /\ (last.op = "next" /\ last.flag) => last.ret = "None"

\* C27: on every path through try_elevate and through is_admin, CloseHandle
\* has been called once on the process token when the operation returns if
\* OpenProcessToken succeeded, and not at all if it failed.
C27_TokenHandleClosedOnce ==
    last.op \in {"try_elevate", "is_admin"} =>
        last.closes = (IF last.failAt = "OpenProcessToken" THEN 0 ELSE 1)

\* is_admin returned the error of GetTokenInformation with the handle closed
C27_Witness ==
    /\ last.op = "is_admin" /\ last.failAt = "GetTokenInformation"
    /\ last.ret = "Err" /\ last.closes = 1

\* C28: whenever the account-name lookup has allocated its SID buffer, the
\* buffer has been released by LocalFree exactly once when the lookup returns,
\* whichever later call failed.
C28_LookupBufferReleasedOnce ==
    (last.op = "from_account_name" /\ last.alloc # 0) =>
        (heap[last.alloc].state = "freed" /\ heap[last.alloc].frees = 1)

\* C29: a native read made for an owned Sid reads no byte past the end of the
\* Sid's data, whichever safe constructor made the Sid.
C29_SidReadsWithinBuffer ==
    last.op \in SidReadOps => last.bytes <= last.size

====
